---------------------------- MODULE Spec2Model ----------------------------
(***************************************************************************)
(* A model of CalmCollective's text-analysis and support-selection engine  *)
(* (src/utils/analyzer.py) and of the /journal handler that drives it      *)
(* (src/app.py).                                                           *)
(*                                                                         *)
(* Texts are TLA+ strings; TLC evaluates Len, SubSeq and \o on them, so    *)
(* the character-level code (lower-casing, the tokenizer's regular         *)
(* expression, substring search) is modelled character by character.       *)
(* String literals are ASCII only, so some characters stand for non-ASCII  *)
(* ones: "~" is U+00E9 (e acute), "^" is U+00C9 (E acute), "*" is U+00D7   *)
(* (multiplication sign), "%" is U+00F7 (division sign) and "@" is         *)
(* U+1F600 (an emoji); in the suggestion texts typographic quotes, dashes  *)
(* and the warning sign are written with their ASCII look-alikes.          *)
(***************************************************************************)
EXTENDS Integers, Sequences, FiniteSets, TLC

VARIABLES
    text,           \* tokenize's and analyze_text's argument
    tokens,         \* tokenize's result
    analysis,       \* the analysis record: analyze_text's result, micro_interventions' argument
    outs,           \* micro_interventions' result
    call,           \* a call of _pick_variant: its arguments and its outcome
    query,          \* a call of _filter_entries: its arguments and its outcome
    entries,        \* data/entries.json: the stored entries, oldest first
    quotes_map,     \* assets/quotes.json
    scriptures_map, \* assets/scriptures.json
    wisdom_map,     \* assets/wisdom.json
    entries_text,   \* the kind of text data/entries.json holds
    workers,        \* the /journal requests being handled, each by its own thread
    response        \* the outcome of the last request handled

vars == <<text, tokens, analysis, outs, call, query, entries, quotes_map, scriptures_map,
          wisdom_map, entries_text, workers, response>>

storeVars == <<entries, quotes_map, scriptures_map, wisdom_map, entries_text, workers,
               response>>

(***************************************************************************)
(* Python values                                                           *)
(***************************************************************************)
\* Python's None where a string is expected (no modelled input is this string).
None == "None"

\* The state of a string variable no call has written yet.
Idle == "idle"

\* The analysis variable before analyze_text has returned.
NoAnalysis == [pending |-> TRUE]

\* The call variable when no _pick_variant call is being made.
NoCall == [options |-> <<>>, last_value |-> None, result |-> [absent |-> TRUE]]

\* The result of a call that has not returned yet.
Pending == [pending |-> TRUE]

\* The query variable when no _filter_entries call is being made.
NoQuery == [entries |-> <<>>, result |-> [absent |-> TRUE]]

\* data/entries.json holds the JSON text of a list: load_json returns it.
JsonText == "json"

\* Python's None where a wisdom object ({text, author}) is expected.
NoneWisdom == [null |-> TRUE]

Max(a, b) == IF a >= b THEN a ELSE b

Min(a, b) == IF a <= b THEN a ELSE b

Abs(a) == IF a < 0 THEN -a ELSE a

Range(s) == {s[i] : i \in 1..Len(s)}

(***************************************************************************)
(* Characters                                                              *)
(***************************************************************************)
AsciiUpper == "ABCDEFGHIJKLMNOPQRSTUVWXYZ"

AsciiLower == "abcdefghijklmnopqrstuvwxyz"

CharAt(s, i) == SubSeq(s, i, i)

CharsOf(s) == {CharAt(s, i) : i \in 1..Len(s)}

\* The regular expression's first class, [a-zA-Z'].
AsciiWordChars == CharsOf(AsciiUpper) \cup CharsOf(AsciiLower) \cup {"'"}

\* The regular expression's second class, [U+00C0-U+024F U+1E00-U+1EFF], as
\* far as the modelled alphabet reaches: the letters "~" (U+00E9) and "^"
\* (U+00C9), and the two signs the range U+00C0-U+024F holds among its
\* letters, "*" (U+00D7) and "%" (U+00F7).
ExtendedLatinChars == {"~", "^", "*", "%"}

\* str.lower() on one character.
LowerChar(c) ==
    IF c \in CharsOf(AsciiUpper)
    THEN CharAt(AsciiLower, CHOOSE i \in 1..Len(AsciiUpper) : CharAt(AsciiUpper, i) = c)
    ELSE IF c = "^" THEN "~"
    ELSE c

RECURSIVE lower(_)
\* str.lower(): character by character (by halves, to keep the recursion shallow).
lower(s) ==
    IF s = "" THEN ""
    ELSE IF Len(s) = 1 THEN LowerChar(s)
    ELSE LET h == Len(s) \div 2
         IN  lower(SubSeq(s, 1, h)) \o lower(SubSeq(s, h + 1, Len(s)))

\* str.isspace() on one character of the modelled alphabet.
IsSpace(c) == c = " "

RECURSIVE lstrip(_)
lstrip(s) == IF s # "" /\ IsSpace(CharAt(s, 1)) THEN lstrip(Tail(s)) ELSE s

RECURSIVE rstrip(_)
rstrip(s) ==
    IF s # "" /\ IsSpace(CharAt(s, Len(s))) THEN rstrip(SubSeq(s, 1, Len(s) - 1)) ELSE s

\* str.strip()
strip(s) == rstrip(lstrip(s))

\* Python's `needle in hay` on strings.
Contains(hay, needle) ==
    \E i \in 1..(Len(hay) - Len(needle) + 1) : SubSeq(hay, i, i + Len(needle) - 1) = needle

RECURSIVE join(_, _)
\* sep.join(toks)
join(sep, toks) ==
    IF toks = <<>> THEN ""
    ELSE IF Len(toks) = 1 THEN toks[1]
    ELSE toks[1] \o sep \o join(sep, Tail(toks))

(***************************************************************************)
(* Lexicons                                                                *)
(***************************************************************************)
POSITIVE ==
    {"calm", "peace", "relief", "grateful", "gratitude", "hope", "okay", "better", "progress",
     "rest", "proud", "joy", "happy", "content", "support", "breathe", "breathing"}

NEGATIVE ==
    {"sad", "down", "tired", "exhausted", "anxious", "anxiety", "panic", "angry", "mad", "lonely",
     "burnout", "burned", "stress", "stressed", "worry", "worried", "overwhelmed", "depressed",
     "cry", "crying", "fear", "scared", "hopeless", "worthless"}

CRISIS ==
    {"hopeless", "no way out", "end it", "suicide", "kill myself", "want to die", "self harm",
     "hurt myself", "bunuh diri", "menyakiti diri", "putus asa", "tidak ada harapan"}

STRESS == {"stress", "stressed", "overwhelm", "overwhelmed", "deadline", "burnout", "exhausted"}

SADNESS == {"sad", "down", "blue", "cry", "crying", "empty", "hopeless", "worthless", "depressed"}

ANGER == {"angry", "mad", "furious", "irritated", "annoyed"}

LONELY == {"lonely", "alone", "isolated", "left out"}

ANXIETY == {"anxious", "anxiety", "panic", "scared", "fear", "khawatir", "cemas"}

(***************************************************************************)
(* tokenize                                                                *)
(***************************************************************************)
RECURSIVE RunEnd(_, _, _)
\* The last index of the maximal run of characters of class cls that starts at i.
RunEnd(s, i, cls) ==
    IF i < Len(s) /\ CharAt(s, i + 1) \in cls THEN RunEnd(s, i + 1, cls) ELSE i

RECURSIVE findall(_, _)
\* re.findall(r"[a-zA-Z']+|[U+00C0-U+024F U+1E00-U+1EFF]+", s), scanning from index i.
findall(s, i) ==
    IF i > Len(s) THEN <<>>
    ELSE IF CharAt(s, i) \in AsciiWordChars
         THEN LET n == RunEnd(s, i, AsciiWordChars)
              IN  <<SubSeq(s, i, n)>> \o findall(s, n + 1)
    ELSE IF CharAt(s, i) \in ExtendedLatinChars
         THEN LET n == RunEnd(s, i, ExtendedLatinChars)
              IN  <<SubSeq(s, i, n)>> \o findall(s, n + 1)
    ELSE findall(s, i + 1)

tokenize(t) == findall(lower(t), 1)

(***************************************************************************)
(* _nice_number and analyze_text                                           *)
(*                                                                         *)
(* A Python number is a record: hundredths is the value times 100, is_int  *)
(* tells an int from a float.  The float (pos - neg) / (pos + neg) is the  *)
(* pair of its numerator and its (positive) denominator.                   *)
(***************************************************************************)
\* round(num/den * 100): the nearest integer.  An exact tie needs
\* 200 * num = (2k + 1) * den, which as num and den have the same parity
\* needs den >= 400; Python rounds the binary float there, here the tie
\* goes to the even neighbour.
RoundHundredths(num, den) ==
    LET fl == (100 * num) \div den
        twice == 2 * (100 * num - fl * den)
    IN  IF twice < den THEN fl
        ELSE IF twice > den THEN fl + 1
        ELSE IF fl % 2 = 0 THEN fl ELSE fl + 1

\* int(r2): truncation towards zero.
IntPart(h) == IF h >= 0 THEN h \div 100 ELSE -((-h) \div 100)

\* _nice_number with the rounding replaced by truncation of the third decimal.
_nice_number_truncating(num, den) ==
    LET cnum == IF num > den THEN den ELSE IF num < -den THEN -den ELSE num
        r2 == IF cnum >= 0 THEN (100 * cnum) \div den ELSE -((100 * (-cnum)) \div den)
    IN  IF r2 - 100 * IntPart(r2) = 0
        THEN [is_int |-> TRUE, hundredths |-> 100 * IntPart(r2)]
        ELSE [is_int |-> FALSE, hundredths |-> r2]

_nice_number(num, den) ==
    LET \* x = max(-1.0, min(1.0, float(x)))
        cnum == IF num > den THEN den ELSE IF num < -den THEN -den ELSE num
        r2 == RoundHundredths(cnum, den)
        \* abs(r2 - int(r2)) < 1e-12: the difference is a whole number of hundredths
    IN  IF Abs(r2 - 100 * IntPart(r2)) = 0
        THEN [is_int |-> TRUE, hundredths |-> 100 * IntPart(r2)]
        ELSE [is_int |-> FALSE, hundredths |-> r2]

\* count over the set of the tokens: each word counted once.
count_distinct(toks, lexicon) == Cardinality(Range(toks) \cap lexicon)

RECURSIVE count(_, _)
\* sum(1 for t in toks if t in lexicon)
count(toks, lexicon) ==
    IF toks = <<>> THEN 0
    ELSE (IF Head(toks) \in lexicon THEN 1 ELSE 0) + count(Tail(toks), lexicon)

\* any_in by substring search in the joined tokens, as the crisis signal does.
any_in_joined(toks, lexicon) == \E w \in lexicon : Contains(join(" ", toks), w)

RECURSIVE any_in(_, _)
\* any(t in lexicon for t in toks)
any_in(toks, lexicon) ==
    IF toks = <<>> THEN FALSE
    ELSE IF Head(toks) \in lexicon THEN TRUE
    ELSE any_in(Tail(toks), lexicon)

mood_score_of(pos, neg) ==
    IF pos + neg > 0
    THEN _nice_number(pos - neg, pos + neg)
    ELSE [is_int |-> TRUE, hundredths |-> 0]

\* signals_of with the crisis phrases looked up among the tokens.
signals_of_tokenwise(toks) ==
    [stress  |-> any_in(toks, STRESS),
     sadness |-> any_in(toks, SADNESS),
     anger   |-> any_in(toks, ANGER),
     lonely  |-> any_in(toks, LONELY),
     anxiety |-> any_in(toks, ANXIETY),
     crisis  |-> any_in(toks, CRISIS)]

signals_of(toks) ==
    LET joined == join(" ", toks)
    IN  [stress  |-> any_in(toks, STRESS),
         sadness |-> any_in(toks, SADNESS),
         anger   |-> any_in(toks, ANGER),
         lonely  |-> any_in(toks, LONELY),
         anxiety |-> any_in(toks, ANXIETY),
         crisis  |-> \E phrase \in CRISIS : Contains(joined, phrase)]

analyze_text(t) ==
    LET toks == tokenize(t)
        pos == count(toks, POSITIVE)
        neg == count(toks, NEGATIVE)
    IN  [tokens     |-> toks,
         positive   |-> pos,
         negative   |-> neg,
         mood_score |-> mood_score_of(pos, neg),
         signals    |-> signals_of(toks)]

(***************************************************************************)
(* micro_interventions                                                     *)
(***************************************************************************)
_cbt_cognitive_diffusion ==
    "ACT - Cognitive defusion: Notice the thought, name it (e.g., 'I'm having the thought that...'), and watch it pass like a cloud for 60 seconds."

_dbt_stop ==
    "DBT - STOP skill: Stop. Take a step back. Observe. Proceed mindfully. Give yourself 1 minute before acting or replying."

_ground_54321 ==
    "Grounding - 5-4-3-2-1: Name 5 things you see, 4 you feel, 3 you hear, 2 you smell, 1 you taste. Do it slowly."

_behavioral_activation ==
    "Behavioral activation: Do one tiny valued action now (stand up, drink water, open a window, put one cup away)."

_paced_breathing ==
    "Breathing - 4-6: Inhale 4s through the nose, exhale 6s through the mouth. Repeat 6 rounds."

_self_compassion ==
    "Self-compassion: Place a hand on your chest and say, 'This is hard, and I'm doing my best. May I be kind to myself right now.'"

_reach_out == "Connection: Message one trusted person 'Hey, could use a quick hello today.'"

\* The suggestion micro_interventions spells out for anger.
AngerTip == "Take space for 2 minutes; unclench your jaw and hands."

crisis_message ==
    <<"(!) If you are in immediate danger or thinking about harming yourself: contact local emergency services or a trusted person now.",
      "You are not alone. Please reach out to someone you trust.",
      _ground_54321>>

\* dict.get(key) on a map of booleans: a missing key reads as None, which is false.
Get(map, key) == IF key \in DOMAIN map THEN map[key] ELSE FALSE

\* s[:n]
Take(s, n) == SubSeq(s, 1, Min(n, Len(s)))

\* The suggestions as accumulated before the fallback, the last `if` with
\* `<=` for `<`.
accumulate_fallback_at_three(sig) ==
    LET o0 == <<_paced_breathing>>
        o1 == IF Get(sig, "anxiety") THEN o0 \o <<_ground_54321, _cbt_cognitive_diffusion>> ELSE o0
        o2 == IF Get(sig, "stress") THEN o1 \o <<_dbt_stop, _behavioral_activation>> ELSE o1
        o3 == IF Get(sig, "sadness") THEN o2 \o <<_behavioral_activation, _self_compassion>> ELSE o2
        o4 == IF Get(sig, "anger") THEN o3 \o <<AngerTip, _dbt_stop>> ELSE o3
        o5 == IF Get(sig, "lonely") THEN o4 \o <<_reach_out>> ELSE o4
    IN  IF Len(o5) <= 3 THEN o5 \o <<_behavioral_activation, _self_compassion>> ELSE o5

\* The list outs of micro_interventions when its deduplication starts.
accumulate(sig) ==
    LET o0 == <<_paced_breathing>>
        o1 == IF Get(sig, "anxiety") THEN o0 \o <<_ground_54321, _cbt_cognitive_diffusion>> ELSE o0
        o2 == IF Get(sig, "stress") THEN o1 \o <<_dbt_stop, _behavioral_activation>> ELSE o1
        o3 == IF Get(sig, "sadness") THEN o2 \o <<_behavioral_activation, _self_compassion>> ELSE o2
        o4 == IF Get(sig, "anger") THEN o3 \o <<AngerTip, _dbt_stop>> ELSE o3
        o5 == IF Get(sig, "lonely") THEN o4 \o <<_reach_out>> ELSE o4
    IN  IF Len(o5) < 3 THEN o5 \o <<_behavioral_activation, _self_compassion>> ELSE o5

RECURSIVE uniq_keep_last(_)
\* uniq keeping each string's last occurrence instead of its first.
uniq_keep_last(s) ==
    IF s = <<>> THEN <<>>
    ELSE IF Head(s) \in Range(Tail(s)) THEN uniq_keep_last(Tail(s))
    ELSE <<Head(s)>> \o uniq_keep_last(Tail(s))

RECURSIVE uniq_from(_, _)
\* The loop `for s in outs: if s not in uniq: uniq.append(s)`, from uniq = acc.
uniq_from(acc, s) ==
    IF s = <<>> THEN acc
    ELSE IF Head(s) \in Range(acc) THEN uniq_from(acc, Tail(s))
    ELSE uniq_from(Append(acc, Head(s)), Tail(s))

uniq(s) == uniq_from(<<>>, s)

\* micro_interventions with the crisis messages put first instead of returned.
micro_interventions_crisis_first(a) ==
    LET sig == IF "signals" \in DOMAIN a THEN a.signals ELSE <<>>
    IN  IF Get(sig, "crisis")
        THEN Take(uniq(crisis_message \o accumulate(sig)), 4)
        ELSE Take(uniq(accumulate(sig)), 4)

micro_interventions(a) ==
    LET sig == IF "signals" \in DOMAIN a THEN a.signals ELSE <<>>  \* analysis.get("signals", {})
    IN  IF Get(sig, "crisis") THEN crisis_message ELSE Take(uniq(accumulate(sig)), 4)

(***************************************************************************)
(* _craft_support_messages                                                 *)
(***************************************************************************)
SlowBreaths ==
    "Take 6 slow breaths: inhale 4s through your nose, exhale 6s. Notice your shoulders drop."

TryGrounding == "Try 5-4-3-2-1 grounding: 5 see, 4 touch, 3 hear, 2 smell, 1 taste."

TinyAction == "Choose one tiny valued action: drink water, open a window, or tidy one item."

MessageTrusted == "Message a trusted person one honest sentence about how you're feeling."

HandOnChest == "Place a hand on your chest and say: 'This is hard, and I'm doing my best.'"

WithinControl == "Write down one thing that is within your control for the next hour."

SlowBreathsMinute ==
    "Take 6 slow breaths: inhale 4s through your nose, exhale 6s, for 1 minute."

SafetyTip ==
    "If you feel unsafe or overwhelmed, consider reaching out to a trusted person or local helpline."

\* The curated short actions appended to the micro_interventions pool.
CuratedActions ==
    <<SlowBreaths, TryGrounding, TinyAction, MessageTrusted, HandOnChest, WithinControl>>

keyword_sets ==
    <<[keys |-> {"panic", "cemas", "anxious", "anxiety", "overwhelmed"},
       suggestions |-> <<SlowBreaths, TryGrounding>>],
      [keys |-> {"lelah", "tired", "exhausted", "burnout"},
       suggestions |-> <<TinyAction, HandOnChest>>],
      [keys |-> {"sedih", "alone", "lonely"},
       suggestions |-> <<MessageTrusted, TinyAction>>],
      [keys |-> {"marah", "anger", "kesal", "frustrated"},
       suggestions |-> <<SlowBreathsMinute, WithinControl>>],
      [keys |-> {"stress", "stres", "overwhelm"},
       suggestions |-> <<WithinControl, TinyAction>>]>>

\* Every string _craft_support_messages can meet.
Suggestions ==
    Range(crisis_message) \cup Range(CuratedActions)
    \cup {_cbt_cognitive_diffusion, _dbt_stop, _ground_54321, _behavioral_activation,
          _paced_breathing, _self_compassion, _reach_out, AngerTip, SlowBreathsMinute,
          SafetyTip}

\* k = s.strip().lower(), tabulated once for the strings above.
dedup_key == [s \in Suggestions |-> lower(strip(s))]

RECURSIVE cue_suggestions(_, _)
\* The loop over keyword_sets from index i: the suggestions of every set
\* one of whose keys is a substring of t.
cue_suggestions(t, i) ==
    IF i > Len(keyword_sets) THEN <<>>
    ELSE (IF \E k \in keyword_sets[i].keys : Contains(t, k)
          THEN keyword_sets[i].suggestions
          ELSE <<>>) \o cue_suggestions(t, i + 1)

RECURSIVE dedup_from(_, _, _)
\* The loop that fills `ordered`, skipping a string whose key was seen.
dedup_from(seen, ordered, rest) ==
    IF rest = <<>> THEN ordered
    ELSE LET x == Head(rest)
             k == dedup_key[x]
         IN  IF x = "" \/ k \in seen
             THEN dedup_from(seen, ordered, Tail(rest))
             ELSE dedup_from(seen \cup {k}, Append(ordered, x), Tail(rest))

\* The list `ordered` of _craft_support_messages; mood is in tenths.
ordered_suggestions(t, a, mood) ==
    LET pos == a.positive
        neg == a.negative
        pool == micro_interventions(a) \o CuratedActions
        prioritized ==
            cue_suggestions(lower(t), 1)
            \o (IF neg >= Max(1, pos * 2) THEN <<TryGrounding, HandOnChest>> ELSE <<>>)
        tip == IF mood <= 20 THEN <<SafetyTip>> ELSE <<>>
    IN  dedup_from({}, <<>>, tip \o prioritized \o pool)

\* _craft_support_messages returning three suggestions whatever the mood is.
_craft_support_messages_three(t, a, mood) == Take(ordered_suggestions(t, a, mood), 3)

_craft_support_messages(t, a, mood) ==
    LET ordered == ordered_suggestions(t, a, mood)
    IN  IF mood > 20
        THEN Take(ordered, 2)
        ELSE <<ordered[1]>> \o SubSeq(ordered, 2, Min(3, Len(ordered)))

(***************************************************************************)
(* _pick_variant and the wisdom selection                                  *)
(*                                                                         *)
(* A random draw is the set of its outcomes; an outcome is a value         *)
(* returned or an exception raised (random.choice raises IndexError on an  *)
(* empty list).                                                            *)
(***************************************************************************)
Returned(v) == [raised |-> FALSE, value |-> v]

Raises == [raised |-> TRUE]

\* random.choice(seq)
choice(seq) == IF seq = <<>> THEN {Raises} ELSE {Returned(seq[i]) : i \in 1..Len(seq)}

\* _pick_variant that leaves the previous selection in the pool.
_pick_variant_repeating(options, last_value) ==
    IF options = <<>> THEN {Returned(None)} ELSE choice(options)

_pick_variant(options, last_value) ==
    IF options = <<>> THEN {Returned(None)}
    ELSE IF last_value \in Range(options) /\ Len(options) > 1
         THEN choice(SelectSeq(options, LAMBDA o : o # last_value))
         ELSE choice(options)

IsDict(w) == "text" \in DOMAIN w

_same_wisdom(a, b) == IsDict(a) /\ IsDict(b) /\ a.text = b.text /\ a.author = b.author

\* The wisdom selection of the /journal handler.
pick_wisdom(wlist, last_wisdom) ==
    IF /\ last_wisdom # NoneWisdom
       /\ wlist # <<>>
       /\ \E i \in 1..Len(wlist) : _same_wisdom(last_wisdom, wlist[i])
       /\ Len(wlist) > 1
    THEN choice(SelectSeq(wlist, LAMBDA w : ~_same_wisdom(w, last_wisdom)))
    ELSE IF wlist # <<>> THEN choice(wlist) ELSE {Returned(NoneWisdom)}

(***************************************************************************)
(* The /journal, /add_scripture and /add_wisdom handlers                   *)
(***************************************************************************)
\* dict.get(key, default) on a form or on a JSON map.
GetOr(map, key, default) == IF key \in DOMAIN map THEN map[key] ELSE default

\* `a or b` on lists.
OrElse(a, b) == IF a # <<>> THEN a ELSE b

\* `a or b` on strings.
OrElseStr(a, b) == IF a # "" THEN a ELSE b

\* float(s) in tenths, for the strings float() accepts among the modelled
\* inputs; any other string raises ValueError.
FloatLiterals == [s \in {"0", "2", "2.5", "7"} |->
                    CASE s = "0" -> 0 [] s = "2" -> 20 [] s = "2.5" -> 25 [] s = "7" -> 70]

DefaultQuote == "You are doing the best you can."

FlashWriteSomething == "flash: Please write a few words about how you feel."

RedirectEntries == "redirect: entries"

ServerError == "500: IndexError"

\* The outcome of a /journal request on an empty text: a flash message
\* and nothing stored.
Flashed == [flashed |-> TRUE]

\* The /journal handler on the request form f, up to the entry it is about
\* to store: the outcomes are Flashed, Raises (an uncaught IndexError) and
\* the entries composed.  The entry's timestamp, the wall clock's reading,
\* is left out; _filter_entries, which reads it, is modelled on entries
\* that carry one.
compose_entry(f) ==
    LET entry_text == strip(GetOr(f, "entry_text", ""))
        raw_mood == GetOr(f, "mood", "0")
        mood == IF raw_mood \in DOMAIN FloatLiterals THEN FloatLiterals[raw_mood] ELSE 0
        flavor == GetOr(f, "flavor", "secular")
    IN  IF entry_text = "" THEN {Flashed}
        ELSE LET a == analyze_text(entry_text)
                 support == _craft_support_messages(entry_text, a, mood)
                 has_last == entries # <<>>
                 last == entries[Len(entries)]
                 spiritual_candidates ==
                     OrElse(GetOr(scriptures_map, flavor, <<>>),
                            GetOr(scriptures_map, "secular", <<>>))
                 last_spiritual == IF has_last THEN last.spiritual ELSE None
                 quote_candidates ==
                     OrElse(OrElse(GetOr(quotes_map, flavor, <<>>),
                                   GetOr(quotes_map, "secular", <<>>)),
                            <<DefaultQuote>>)
                 last_quote == IF has_last THEN last.quote ELSE None
                 wlist ==
                     OrElse(GetOr(wisdom_map, flavor, <<>>), GetOr(wisdom_map, "secular", <<>>))
                 last_wisdom == IF has_last THEN last.wisdom ELSE NoneWisdom
             IN  {IF spiritual.raised \/ quote.raised \/ wisdom.raised
                  THEN Raises
                  ELSE Returned([text        |-> entry_text,
                                 mood_slider |-> mood,
                                 flavor      |-> flavor,
                                 analysis    |-> a,
                                 support     |-> support,
                                 quote       |-> quote.value,
                                 spiritual   |-> spiritual.value,
                                 wisdom      |-> wisdom.value]) :
                     spiritual \in _pick_variant(spiritual_candidates, last_spiritual),
                     quote \in _pick_variant(quote_candidates, last_quote),
                     wisdom \in pick_wisdom(wlist, last_wisdom)}

\* The handler of POST /journal on the request form f, when no other
\* request is handled at the same time.
journal(f) ==
    \E o \in compose_entry(f) :
        IF o = Flashed
        THEN /\ response' = FlashWriteSomething
             /\ UNCHANGED <<entries, quotes_map, scriptures_map, wisdom_map, entries_text,
                            workers>>
        ELSE IF o = Raises
        THEN /\ response' = ServerError
             /\ UNCHANGED <<entries, quotes_map, scriptures_map, wisdom_map, entries_text,
                            workers>>
        ELSE /\ entries' = Append(entries, o.value)
             /\ response' = RedirectEntries
             /\ UNCHANGED <<quotes_map, scriptures_map, wisdom_map, entries_text, workers>>

\* _append_to_map_list on a map m
_append_to_map_list(m, flavor, item) ==
    [k \in DOMAIN m \cup {flavor} |->
        IF k = flavor THEN Append(GetOr(m, flavor, <<>>), item) ELSE m[k]]

\* The handler of POST /add_scripture.
add_scripture(f) ==
    LET flavor == strip(OrElseStr(GetOr(f, "scripture_flavor", "secular"), "secular"))
        scripture == strip(OrElseStr(GetOr(f, "scripture_text", ""), ""))
    IN  IF scripture = ""
        THEN /\ response' = "flash: Please provide scripture text."
             /\ UNCHANGED <<entries, quotes_map, scriptures_map, wisdom_map, entries_text,
                            workers>>
        ELSE /\ scriptures_map' = _append_to_map_list(scriptures_map, flavor, scripture)
             /\ response' = "flash: Scripture added."
             /\ UNCHANGED <<entries, quotes_map, wisdom_map, entries_text, workers>>

\* The handler of POST /add_wisdom.
add_wisdom(f) ==
    LET flavor == strip(OrElseStr(GetOr(f, "wisdom_flavor", "secular"), "secular"))
        wtext == strip(OrElseStr(GetOr(f, "wisdom_text", ""), ""))
        author == strip(OrElseStr(GetOr(f, "wisdom_author", ""), "Unknown"))
    IN  IF wtext = ""
        THEN /\ response' = "flash: Please provide wisdom text."
             /\ UNCHANGED <<entries, quotes_map, scriptures_map, wisdom_map, entries_text,
                            workers>>
        ELSE /\ wisdom_map' =
                    _append_to_map_list(wisdom_map, flavor, [text |-> wtext, author |-> author])
             /\ response' = "flash: Wisdom quote added."
             /\ UNCHANGED <<entries, quotes_map, scriptures_map, entries_text, workers>>

(***************************************************************************)
(* _parse_date_yyyy_mm_dd, _parse_entry_ts and _filter_entries             *)
(*                                                                         *)
(* A datetime (naive) is a record: days is the proleptic Gregorian ordinal *)
(* of its date (1 for 0001-01-01), secs the seconds since midnight.        *)
(***************************************************************************)
\* Python's None where a datetime is expected.
NoneDatetime == [null |-> TRUE]

DecimalDigits == "0123456789"

AllDigits(s) == \A i \in 1..Len(s) : CharAt(s, i) \in CharsOf(DecimalDigits)

DigitValue(c) == (CHOOSE i \in 1..Len(DecimalDigits) : CharAt(DecimalDigits, i) = c) - 1

RECURSIVE int(_)
\* int(s) on a string of decimal digits
int(s) ==
    IF s = "" THEN 0
    ELSE 10 * int(SubSeq(s, 1, Len(s) - 1)) + DigitValue(CharAt(s, Len(s)))

RECURSIVE split(_, _)
\* s.split(sep) for a one-character sep
split(s, sep) ==
    IF ~Contains(s, sep) THEN <<s>>
    ELSE LET i == CHOOSE k \in 1..Len(s) :
                      CharAt(s, k) = sep /\ \A j \in 1..(k - 1) : CharAt(s, j) # sep
         IN  <<SubSeq(s, 1, i - 1)>> \o split(SubSeq(s, i + 1, Len(s)), sep)

IsLeap(y) == y % 4 = 0 /\ (y % 100 # 0 \/ y % 400 = 0)

DaysInMonth(y, m) ==
    IF m \in {1, 3, 5, 7, 8, 10, 12} THEN 31
    ELSE IF m \in {4, 6, 9, 11} THEN 30
    ELSE IF IsLeap(y) THEN 29 ELSE 28

DaysBeforeYear(y) == 365 * (y - 1) + (y - 1) \div 4 - (y - 1) \div 100 + (y - 1) \div 400

RECURSIVE DaysBeforeMonth(_, _)
DaysBeforeMonth(y, m) ==
    IF m = 1 THEN 0 ELSE DaysBeforeMonth(y, m - 1) + DaysInMonth(y, m - 1)

\* date(y, m, d).toordinal()
toordinal(y, m, d) == DaysBeforeYear(y) + DaysBeforeMonth(y, m) + d

\* datetime.max.toordinal(): the date 9999-12-31
MaxOrdinal == 3652059

SecondsPerDay == 86400

\* datetime(y, m, d, hh, mm, ss), or None where the constructor raises ValueError.
datetime(y, m, d, hh, mm, ss) ==
    IF /\ y \in 1..9999 /\ m \in 1..12 /\ d \in 1..DaysInMonth(y, m)
       /\ hh \in 0..23 /\ mm \in 0..59 /\ ss \in 0..59
    THEN [days |-> toordinal(y, m, d), secs |-> 3600 * hh + 60 * mm + ss]
    ELSE NoneDatetime

\* a < b on datetimes
Before(a, b) == a.days < b.days \/ (a.days = b.days /\ a.secs < b.secs)

\* The directive %m of strptime: 1[0-2]|0[1-9]|[1-9]
MonthField(x) == Len(x) \in 1..2 /\ AllDigits(x) /\ int(x) \in 1..12

\* The directive %d of strptime: 3[01]|[12]\d|0[1-9]|[1-9]| [1-9]
DayField(x) ==
    \/ Len(x) \in 1..2 /\ AllDigits(x) /\ int(x) \in 1..31
    \/ Len(x) = 2 /\ CharAt(x, 1) = " " /\ CharAt(x, 2) \in CharsOf("123456789")

\* _parse_date_yyyy_mm_dd: datetime.strptime(s, "%Y-%m-%d"), None if s is
\* None or empty or strptime raises.
_parse_date_yyyy_mm_dd(s) ==
    IF s = None \/ s = "" THEN NoneDatetime
    ELSE LET x == split(s, "-")
         IN  IF /\ Len(x) = 3
                /\ Len(x[1]) = 4 /\ AllDigits(x[1])
                /\ MonthField(x[2])
                /\ DayField(x[3])
             THEN datetime(int(x[1]), int(x[2]), int(lstrip(x[3])), 0, 0, 0)
             ELSE NoneDatetime

RECURSIVE replace_space(_)
\* ts.replace(" ", "T")
replace_space(ts) ==
    IF ts = "" THEN ""
    ELSE (IF CharAt(ts, 1) = " " THEN "T" ELSE CharAt(ts, 1)) \o replace_space(Tail(ts))

\* A field of exactly two digits.
TwoDigits(x) == Len(x) = 2 /\ AllDigits(x)

\* datetime.fromisoformat(s) on the extended format: YYYY-MM-DD alone, or
\* followed by one separator character and HH:MM or HH:MM:SS.  The basic
\* (compact) and week formats, fractions of a second and UTC offsets are
\* not among the modelled timestamps; any other string raises ValueError.
fromisoformat(s) ==
    LET dpart == SubSeq(s, 1, Min(10, Len(s)))
        d == split(dpart, "-")
        tpart == SubSeq(s, 12, Len(s))
        t == split(tpart, ":")
        date_ok == /\ Len(dpart) = 10 /\ Len(d) = 3
                   /\ Len(d[1]) = 4 /\ AllDigits(d[1]) /\ TwoDigits(d[2]) /\ TwoDigits(d[3])
        time_ok == /\ Len(s) \in {16, 19}
                   /\ Len(t) = (Len(s) - 10) \div 3
                   /\ \A i \in 1..Len(t) : TwoDigits(t[i])
    IN  IF date_ok /\ Len(s) = 10
        THEN datetime(int(d[1]), int(d[2]), int(d[3]), 0, 0, 0)
        ELSE IF date_ok /\ time_ok
        THEN datetime(int(d[1]), int(d[2]), int(d[3]), int(t[1]), int(t[2]),
                      IF Len(t) = 3 THEN int(t[3]) ELSE 0)
        ELSE NoneDatetime

\* _parse_entry_ts: the entry's timestamp as a datetime, None if it is
\* missing, empty or not in ISO format.
_parse_entry_ts(e) ==
    LET ts == GetOr(e, "timestamp", None)
    IN  IF ts = None \/ ts = "" THEN NoneDatetime
        ELSE fromisoformat(replace_space(ts))

\* The loop of _filter_entries: the entries e that reach out.append(e).
kept(e, f, start_dt, end_dt) ==
    /\ ~(f # "" /\ f # "all" /\ GetOr(e, "flavor", None) # f)
    /\ (start_dt # NoneDatetime \/ end_dt # NoneDatetime) =>
           LET et == _parse_entry_ts(e)
           IN  /\ et # NoneDatetime
               /\ ~(start_dt # NoneDatetime /\ Before(et, start_dt))
               /\ ~(end_dt # NoneDatetime /\ Before(end_dt, et))

\* _filter_entries: the outcomes of a call.  datetime + timedelta raises
\* OverflowError when the result lies after datetime.max.
_filter_entries(es, flavor, start, end) ==
    LET f == lower(strip(IF flavor = None THEN "" ELSE flavor))
        start_dt == _parse_date_yyyy_mm_dd(start)
        end_day == _parse_date_yyyy_mm_dd(end)
    IN  IF end_day # NoneDatetime /\ end_day.days + 1 > MaxOrdinal
        THEN {Raises}
        ELSE LET \* end_dt + timedelta(days=1) - timedelta(seconds=1)
                 end_dt == IF end_day = NoneDatetime THEN NoneDatetime
                           ELSE IF end_day.secs = 0
                                THEN [days |-> end_day.days, secs |-> SecondsPerDay - 1]
                                ELSE [days |-> end_day.days + 1, secs |-> end_day.secs - 1]
             IN  {Returned(SelectSeq(es, LAMBDA e : kept(e, f, start_dt, end_dt)))}

(***************************************************************************)
(* Input texts: concatenations of at most n pieces of a vocabulary.        *)
(***************************************************************************)
RECURSIVE Texts(_, _)
Texts(vocab, n) ==
    IF n = 0 THEN {""}
    ELSE LET shorter == Texts(vocab, n - 1)
         IN  shorter \cup {t \o p : t \in shorter, p \in vocab}

\* Separators, lexicon words of every category, an upper-case spelling,
\* fragments that build crisis phrases across tokens ("end it") and inside
\* longer words ("hopelessit"), and a non-ASCII letter.
AnalyzeVocab ==
    {" ", ",", "sad", "Calm", "stressed", "angry", "alone", "panic", "hopeless",
     "end", "it", "fri", "left", "out", "~"}

MaxPieces == 3

\* Texts of positive and negative words only, long enough for the scores
\* that round up (4/6) and down (1/3).
MoodVocab == {"calm ", "SAD,"}

MaxMoodPieces == 7

\* Every word and phrase of the five category lexicons, as a text of its own.
CategoryEntries == STRESS \cup SADNESS \cup ANGER \cup LONELY \cup ANXIETY

AnalyzeTexts ==
    Texts(AnalyzeVocab, MaxPieces) \cup Texts(MoodVocab, MaxMoodPieces) \cup CategoryEntries

(***************************************************************************)
(* The specification of one analyze_text call                              *)
(***************************************************************************)
StoreIdle ==
    /\ entries = <<>>
    /\ quotes_map = <<>>
    /\ scriptures_map = <<>>
    /\ wisdom_map = <<>>
    /\ entries_text = JsonText
    /\ workers = <<>>
    /\ response = Idle

InitAnalyze ==
    /\ text \in AnalyzeTexts
    /\ tokens = Pending
    /\ analysis = NoAnalysis
    /\ outs = <<>>
    /\ call = NoCall
    /\ query = NoQuery
    /\ StoreIdle

Analyze ==
    /\ analysis = NoAnalysis
    /\ analysis' = analyze_text(text)
    /\ UNCHANGED <<text, tokens, outs, call, query>>
    /\ UNCHANGED storeVars

SpecAnalyze == InitAnalyze /\ [][Analyze]_vars

(***************************************************************************)
(* The specification of journal submissions into an empty store            *)
(***************************************************************************)
\* Crisis phrases in one token and across tokens, positive and negative
\* words, and the keyword cues, "anger" inside "danger" among them.
SupportVocab ==
    {" ", "hopeless", "end", "it", "calm", "panic", "tired", "alone", "danger", "stress"}

MaxSupportPieces == 3

\* Moods above, at and below the threshold 2; "abc" is no float.
MoodInputs == {"2", "2.5", "7", "abc"}

SupportForms ==
    {[entry_text |-> t, mood |-> m, flavor |-> "secular"] :
        t \in Texts(SupportVocab, MaxSupportPieces), m \in MoodInputs}

NoCalls ==
    /\ text = ""
    /\ tokens = Pending
    /\ analysis = NoAnalysis
    /\ outs = <<>>
    /\ call = NoCall
    /\ query = NoQuery

callVars == <<text, tokens, analysis, outs, call, query>>

InitSupport == NoCalls /\ StoreIdle

\* A first POST /journal.
PostFirstJournal ==
    /\ entries = <<>>
    /\ \E f \in SupportForms : journal(f)
    /\ UNCHANGED callVars

SpecSupport == InitSupport /\ [][PostFirstJournal]_vars

(***************************************************************************)
(* The specification of the variety picks: single _pick_variant calls on   *)
(* any small candidate list, and sequences of /journal and /add_scripture  *)
(* requests in any order                                                   *)
(***************************************************************************)
PickValues == {"a", "b", "c"}

MaxOptions == 3

RECURSIVE Lists(_, _)
\* The lists of at most n elements of S.
Lists(S, n) ==
    IF n = 0 THEN {<<>>}
    ELSE LET shorter == Lists(S, n - 1)
         IN  shorter \cup {Append(l, x) : l \in shorter, x \in S}

InitPickCall ==
    /\ text = ""
    /\ tokens = Pending
    /\ analysis = NoAnalysis
    /\ outs = <<>>
    /\ query = NoQuery
    /\ call \in {[options |-> o, last_value |-> l, result |-> Pending] :
                    o \in Lists(PickValues, MaxOptions), l \in PickValues \cup {None}}
    /\ StoreIdle

\* One call of _pick_variant.
PickVariant ==
    /\ call.result = Pending
    /\ \E r \in _pick_variant(call.options, call.last_value) :
           call' = [call EXCEPT !.result = r]
    /\ UNCHANGED <<text, tokens, analysis, outs, query>>
    /\ UNCHANGED storeVars

\* quotes.json is missing (every flavor gets the default quote), or holds
\* two flavors that share a quote.
QuoteMaps == {<<>>, [secular |-> <<"qa", "qb">>, islam |-> <<"qa", "qc">>]}

\* wisdom.json is missing, or holds two sayings that differ in the author only.
WisdomMaps ==
    {<<>>, [secular |-> <<[text |-> "wa", author |-> "Unknown"],
                          [text |-> "wa", author |-> "Rumi"]>>]}

InitJournal ==
    /\ NoCalls
    /\ entries = <<>>
    /\ quotes_map \in QuoteMaps
    /\ scriptures_map = <<>>
    /\ wisdom_map \in WisdomMaps
    /\ entries_text = JsonText
    /\ workers = <<>>
    /\ response = Idle

MaxEntries == 2

MaxPool == 2

JournalForms ==
    {[entry_text |-> t, mood |-> "7", flavor |-> fl] :
        t \in {"  ", " sad"}, fl \in {"secular", "islam"}}

ScriptureForms ==
    {[scripture_flavor |-> fl, scripture_text |-> t] :
        fl \in {"", "islam "}, t \in {"", "sa", "sb"}}

WisdomForms ==
    {[wisdom_flavor |-> "secular", wisdom_text |-> t] : t \in {"wa", "wb"}}
    \cup {[wisdom_flavor |-> "secular", wisdom_text |-> "wa", wisdom_author |-> "Rumi"]}

RECURSIVE PoolSize(_, _)
\* The number of items in the lists of map m under the keys ks.
PoolSize(m, ks) ==
    IF ks = {} THEN 0
    ELSE LET k == CHOOSE x \in ks : TRUE
         IN  Len(m[k]) + PoolSize(m, ks \ {k})

PostJournal ==
    /\ call = NoCall
    /\ Len(entries) < MaxEntries
    /\ \E f \in JournalForms : journal(f)
    /\ UNCHANGED callVars

PostAddScripture ==
    /\ call = NoCall
    /\ PoolSize(scriptures_map, DOMAIN scriptures_map) < MaxPool
    /\ \E f \in ScriptureForms : add_scripture(f)
    /\ UNCHANGED callVars

PostAddWisdom ==
    /\ call = NoCall
    /\ PoolSize(wisdom_map, DOMAIN wisdom_map) < MaxPool
    /\ \E f \in WisdomForms : add_wisdom(f)
    /\ UNCHANGED callVars

SpecVariety ==
    /\ InitPickCall \/ InitJournal
    /\ [][PickVariant \/ PostJournal \/ PostAddScripture]_vars

(***************************************************************************)
(* The specification of one micro_interventions call, on any of the 64     *)
(* signal maps                                                             *)
(***************************************************************************)
SignalKeys == {"stress", "sadness", "anger", "lonely", "anxiety", "crisis"}

InitInterventions ==
    /\ text = ""
    /\ tokens = Pending
    /\ query = NoQuery
    /\ analysis \in {[signals |-> sig] : sig \in [SignalKeys -> BOOLEAN]}
    /\ outs = <<>>
    /\ call = NoCall
    /\ StoreIdle

Intervene ==
    /\ outs = <<>>
    /\ outs' = micro_interventions(analysis)
    /\ UNCHANGED <<text, tokens, analysis, call, query>>
    /\ UNCHANGED storeVars

SpecInterventions == InitInterventions /\ [][Intervene]_vars

(***************************************************************************)
(* Claims on analyze_text, checked under SpecAnalyze                       *)
(***************************************************************************)
Analyzed == analysis # NoAnalysis

\* The number of indices of toks whose token is in the lexicon.
Occurrences(toks, lexicon) == Cardinality({i \in 1..Len(toks) : toks[i] \in lexicon})

\* C1: the mood score returned for any text lies in [-1, 1]; when
\* positive + negative > 0 it is (positive - negative) / (positive + negative)
\* rounded to 2 decimal places (no hundredth is nearer to the quotient), and
\* a whole value (-1, 0, 1) is an int, any other value a float.
C1_MoodScore ==
    Analyzed =>
        LET ms == analysis.mood_score
            p == analysis.positive
            n == analysis.negative
        IN  /\ -100 <= ms.hundredths /\ ms.hundredths <= 100
            /\ p + n > 0 => 2 * Abs(100 * (p - n) - ms.hundredths * (p + n)) <= p + n
            /\ ms.is_int <=> ms.hundredths \in {-100, 0, 100}

\* C1's case: a score that rounds up, 4/6 to 0.67.
C1_Witness ==
    /\ Analyzed
    /\ analysis.positive = 5
    /\ analysis.negative = 1
    /\ analysis.mood_score = [is_int |-> FALSE, hundredths |-> 67]

\* C2: positive and negative count the occurrences of lexicon tokens
\* (each occurrence, not each distinct word), and whenever the two counts
\* are equal, both zero or both the same positive value, the mood score is
\* the integer 0.
C2_BalancedIsZero ==
    Analyzed =>
        LET p == Occurrences(analysis.tokens, POSITIVE)
            n == Occurrences(analysis.tokens, NEGATIVE)
        IN  /\ analysis.positive = p
            /\ analysis.negative = n
            /\ p = n => analysis.mood_score = [is_int |-> TRUE, hundredths |-> 0]

\* C2's case: the same positive and the same negative word twice each.
C2_Witness ==
    /\ Analyzed
    /\ analysis.tokens = <<"calm", "calm", "sad", "sad">>
    /\ analysis.positive = 2
    /\ analysis.negative = 2
    /\ analysis.mood_score = [is_int |-> TRUE, hundredths |-> 0]

\* C3: the signals map has exactly the six category keys, and crisis is
\* true exactly when some CRISIS phrase is a contiguous substring of the
\* tokens joined with single spaces.
C3_CrisisSignal ==
    Analyzed =>
        /\ DOMAIN analysis.signals = SignalKeys
        /\ analysis.signals.crisis
             <=> \E phrase \in CRISIS : Contains(join(" ", analysis.tokens), phrase)

\* C3's case: a phrase found across a token boundary that the text itself
\* does not contain ("end,it"), and one found inside a longer word.
C3_Witness ==
    /\ Analyzed
    /\ analysis.signals.crisis
    /\ \A i \in 1..Len(analysis.tokens) : analysis.tokens[i] \notin CRISIS
    /\ \A phrase \in CRISIS : ~Contains(lower(text), phrase)

CategoryLexicon ==
    [stress |-> STRESS, sadness |-> SADNESS, anger |-> ANGER, lonely |-> LONELY,
     anxiety |-> ANXIETY]

\* C4: each of the signals stress, sadness, anger, lonely and anxiety is
\* true exactly when at least one token is a member of the category's word
\* set, each category on its own; the single token "hopeless" sets both
\* sadness and crisis.
C4_CategorySignals ==
    Analyzed =>
        /\ \A cat \in DOMAIN CategoryLexicon :
               analysis.signals[cat]
                 <=> \E i \in 1..Len(analysis.tokens) :
                         analysis.tokens[i] \in CategoryLexicon[cat]
        /\ analysis.tokens = <<"hopeless">>
             => analysis.signals.sadness /\ analysis.signals.crisis

\* C4's case: the only token is "hopeless", and it raises two signals.
C4_Witness ==
    /\ Analyzed
    /\ analysis.tokens = <<"hopeless">>
    /\ analysis.signals.sadness
    /\ analysis.signals.crisis
    /\ ~analysis.signals.stress

\* C15: every entry of every category lexicon can raise its signal: the
\* analysis of a text that consists of one word or phrase of STRESS,
\* SADNESS, ANGER, LONELY or ANXIETY alone has that category's signal
\* true, the two-word LONELY entry "left out" included.
C15_EveryEntryRaisesItsSignal ==
    Analyzed =>
        \A cat \in DOMAIN CategoryLexicon :
            text \in CategoryLexicon[cat] => analysis.signals[cat]

(***************************************************************************)
(* Claims on micro_interventions, checked under SpecInterventions          *)
(***************************************************************************)
Intervened == outs # <<>>

\* C5: whenever the crisis signal is true the result is exactly the three
\* crisis messages (emergency message, reassurance, 5-4-3-2-1 grounding) in
\* that order, whatever the other five signals are.
C5_CrisisSequence ==
    (Intervened /\ analysis.signals.crisis) =>
        /\ Len(outs) = 3
        /\ outs[1] = "(!) If you are in immediate danger or thinking about harming yourself: contact local emergency services or a trusted person now."
        /\ outs[2] = "You are not alone. Please reach out to someone you trust."
        /\ outs[3] = _ground_54321

\* C5's case: crisis together with all five other signals.
C5_Witness ==
    /\ Intervened
    /\ \A k \in SignalKeys : analysis.signals[k]
    /\ outs = crisis_message

\* The priority sequence as the specification words it: paced breathing,
\* each raised category's suggestions in the fixed order, and the fallback
\* pair if fewer than 3 suggestions were accumulated; the crisis messages
\* alone when crisis is raised.
PrioritySequence(sig) ==
    LET picked ==
            <<_paced_breathing>>
            \o (IF sig.anxiety THEN <<_ground_54321, _cbt_cognitive_diffusion>> ELSE <<>>)
            \o (IF sig.stress THEN <<_dbt_stop, _behavioral_activation>> ELSE <<>>)
            \o (IF sig.sadness THEN <<_behavioral_activation, _self_compassion>> ELSE <<>>)
            \o (IF sig.anger THEN <<AngerTip, _dbt_stop>> ELSE <<>>)
            \o (IF sig.lonely THEN <<_reach_out>> ELSE <<>>)
    IN  IF sig.crisis THEN crisis_message
        ELSE IF Len(picked) < 3
             THEN picked \o <<_behavioral_activation, _self_compassion>>
             ELSE picked

\* The index of the first occurrence of x in seq.
FirstIndex(seq, x) == CHOOSE i \in 1..Len(seq) : seq[i] = x /\ \A j \in 1..(i - 1) : seq[j] # x

\* The indices of seq that hold the first occurrence of their item.
FirstOccurrences(seq) == {i \in 1..Len(seq) : \A j \in 1..(i - 1) : seq[j] # seq[i]}

\* C7: for each of the 64 signal maps the result has at most 4 entries
\* (exactly 3 under crisis), holds no string twice, holds only strings of
\* the priority sequence, and orders them as their first occurrences in it.
C7_BoundedDistinctOrdered ==
    Intervened =>
        LET seq == PrioritySequence(analysis.signals)
        IN  /\ Len(outs) <= 4
            /\ analysis.signals.crisis => Len(outs) = 3
            /\ \A i, j \in 1..Len(outs) : i # j => outs[i] # outs[j]
            /\ \A i \in 1..Len(outs) : outs[i] \in Range(seq)
            /\ \A i, j \in 1..Len(outs) :
                   i < j => FirstIndex(seq, outs[i]) < FirstIndex(seq, outs[j])

\* C7's case: stress and anger both suggest the STOP skill, which is kept
\* once, at its first place; and 4 suggestions are returned.
C7_Witness ==
    /\ Intervened
    /\ analysis.signals.stress /\ analysis.signals.anger /\ ~analysis.signals.crisis
    /\ Len(outs) = 4
    /\ Len(PrioritySequence(analysis.signals)) > 4
    /\ outs[2] = _dbt_stop

\* C8: without crisis the result is the first 4 distinct items of the
\* priority sequence; stress alone yields paced breathing, the STOP skill
\* and behavioral activation.
C8_FirstFourDistinct ==
    (Intervened /\ ~analysis.signals.crisis) =>
        LET seq == PrioritySequence(analysis.signals)
            firsts == FirstOccurrences(seq)
            \* the k-th smallest index of firsts
            kth(k) == CHOOSE i \in firsts : Cardinality({j \in firsts : j < i}) = k - 1
        IN  /\ Len(outs) = Min(4, Cardinality(firsts))
            /\ \A k \in 1..Len(outs) : outs[k] = seq[kth(k)]
            /\ (analysis.signals.stress
                  /\ \A c \in SignalKeys \ {"stress"} : ~analysis.signals[c])
                 => outs = <<_paced_breathing, _dbt_stop, _behavioral_activation>>

\* C8's case: stress alone; three suggestions and no fallback.
C8_Witness ==
    /\ Intervened
    /\ analysis.signals.stress
    /\ \A c \in SignalKeys \ {"stress"} : ~analysis.signals[c]
    /\ outs = <<_paced_breathing, _dbt_stop, _behavioral_activation>>

(***************************************************************************)
(* Claims on the support list, checked under SpecSupport                   *)
(***************************************************************************)
EmergencyMessage == crisis_message[1]

\* C6: every stored entry whose analysis has crisis = true carries the
\* emergency crisis message in its support list, whatever the keyword
\* cues, the positive and negative counts and the mood slider are.
C6_CrisisDominatesSupport ==
    \A i \in 1..Len(entries) :
        entries[i].analysis.signals.crisis => EmergencyMessage \in Range(entries[i].support)

\* C10: the support list of a stored entry has at most 2 items when the
\* mood is above 2; when the mood is 2 or less it has at most 3 items and
\* starts with the safety tip, with or without a crisis signal; and no two
\* of its strings are equal after trimming and lower-casing.
C10_SupportSize ==
    \A i \in 1..Len(entries) :
        LET e == entries[i]
        IN  /\ e.mood_slider > 20 => Len(e.support) <= 2
            /\ e.mood_slider <= 20 => Len(e.support) <= 3 /\ e.support[1] = SafetyTip
            /\ \A j, k \in 1..Len(e.support) :
                   j # k => dedup_key[e.support[j]] # dedup_key[e.support[k]]

\* C10's case: a low mood without a crisis signal; the safety tip and two
\* more suggestions.
C10_Witness ==
    /\ Len(entries) = 1
    /\ entries[1].mood_slider <= 20
    /\ ~entries[1].analysis.signals.crisis
    /\ Len(entries[1].support) = 3
    /\ entries[1].support[1] = SafetyTip

(***************************************************************************)
(* Claims on the variety picks, checked under SpecVariety                  *)
(***************************************************************************)
\* The candidate lists the /journal handler draws from for flavor fl.
QuotePool(fl) ==
    OrElse(OrElse(GetOr(quotes_map, fl, <<>>), GetOr(quotes_map, "secular", <<>>)),
           <<DefaultQuote>>)

SpiritualPool(fl) ==
    OrElse(GetOr(scriptures_map, fl, <<>>), GetOr(scriptures_map, "secular", <<>>))

\* A _pick_variant call that was given a previous pick (last_value is not
\* None) and returned does not return that pick, unless the candidate list
\* has exactly one element.
PickAvoidsPrevious ==
    ("raised" \in DOMAIN call.result /\ ~call.result.raised /\ call.last_value # None) =>
        (call.result.value = call.last_value => Len(call.options) = 1)

\* A step that stores an entry after another one gives it a quote (a
\* spiritual note) other than the previous entry's, if the pool it draws
\* from has more than one element.
StoredPicksAvoidPrevious ==
    (Len(entries') = Len(entries) + 1 /\ entries # <<>>) =>
        LET last == entries[Len(entries)]
            new == entries'[Len(entries')]
        IN  /\ Len(QuotePool(new.flavor)) > 1 => new.quote # last.quote
            /\ Len(SpiritualPool(new.flavor)) > 1 => new.spiritual # last.spiritual

\* C9: _pick_variant never returns the previous pick (a value; None means
\* there is none) unless the candidate list has exactly one element; so over any sequence of journal
\* submissions handled one after the other, two consecutive stored entries
\* never carry the same quote, or the same spiritual note, when the pool
\* the later submission draws from has more than one element.
C9_NoImmediateRepeat == []PickAvoidsPrevious /\ [][StoredPicksAvoidPrevious]_vars

\* C9's case: the second entry's pools hold the first entry's quote and
\* spiritual note among others, and the second entry carries other ones.
C9_Witness ==
    /\ Len(entries) >= 2
    /\ Len(QuotePool(entries[2].flavor)) > 1
    /\ entries[1].quote \in Range(QuotePool(entries[2].flavor))
    /\ entries[2].quote # entries[1].quote
    /\ Len(SpiritualPool(entries[2].flavor)) > 1
    /\ entries[1].spiritual \in Range(SpiritualPool(entries[2].flavor))
    /\ entries[2].spiritual # entries[1].spiritual


\* C12: _pick_variant is total: every call returns, without raising; it
\* returns None exactly when the candidate list is empty, and an element
\* of the candidate list otherwise, also when the list holds nothing but
\* duplicates of the previous value.
C12_PickVariantTotal ==
    "raised" \in DOMAIN call.result =>
        IF call.result.raised THEN FALSE
        ELSE /\ call.result.value = None <=> call.options = <<>>
             /\ call.options # <<>> => call.result.value \in Range(call.options)

(***************************************************************************)
(* The specification of the wisdom selection: /add_wisdom and /journal     *)
(* requests in any order, from an empty wisdom.json; and the claim on it   *)
(***************************************************************************)
InitWisdom == NoCalls /\ StoreIdle

SpecWisdom == InitWisdom /\ [][PostJournal \/ PostAddWisdom]_vars

\* The wisdom list the /journal handler draws from for flavor fl.
WisdomPool(fl) == OrElse(GetOr(wisdom_map, fl, <<>>), GetOr(wisdom_map, "secular", <<>>))

\* A /journal request on a non-empty text does not end in a server error,
\* and the wisdom of the entry it stores is None if the pool is empty, and
\* an element of the pool otherwise: one that differs from the last
\* entry's wisdom in text or author, if that wisdom equals a pool element
\* field-wise and the pool has more than one element.
WisdomSelectionObeysContract ==
    /\ response' # ServerError
    /\ Len(entries') = Len(entries) + 1 =>
           LET new == entries'[Len(entries')]
               wl == WisdomPool(new.flavor)
               last_wisdom == IF entries = <<>> THEN NoneWisdom
                              ELSE entries[Len(entries)].wisdom
           IN  /\ wl = <<>> => new.wisdom = NoneWisdom
               /\ wl # <<>> => new.wisdom \in Range(wl)
               /\ (Len(wl) > 1 /\ \E i \in 1..Len(wl) : _same_wisdom(last_wisdom, wl[i]))
                    => ~_same_wisdom(new.wisdom, last_wisdom)

\* C13: the wisdom selection of the /journal handler obeys the variety
\* picker's contract with field-wise equality on (text, author), for every
\* wisdom pool and every last-entry wisdom.
C13_WisdomContract == [][WisdomSelectionObeysContract]_vars

(***************************************************************************)
(* The specification of one tokenize call, and the claim on it             *)
(***************************************************************************)
\* Letters of both classes in both cases, an apostrophe, a digit, a comma,
\* a space, an emoji and the multiplication sign.
TokenizeVocab == {"a", "B", "'", "~", "^", "*", "3", ",", " ", "@"}

MaxTokenizePieces == 3

InitTokenize ==
    /\ text \in Texts(TokenizeVocab, MaxTokenizePieces)
    /\ tokens = Pending
    /\ analysis = NoAnalysis
    /\ outs = <<>>
    /\ call = NoCall
    /\ query = NoQuery
    /\ StoreIdle

\* One call of tokenize.
Tokenize ==
    /\ tokens = Pending
    /\ tokens' = Returned(tokenize(text))
    /\ UNCHANGED <<text, analysis, outs, call, query>>
    /\ UNCHANGED storeVars

SpecTokenize == InitTokenize /\ [][Tokenize]_vars

Tokenized == tokens # Pending

AsciiLetters == CharsOf(AsciiUpper) \cup CharsOf(AsciiLower)

\* The letters of the extended-Latin blocks in the modelled alphabet.
ExtendedLatinLetters == {"~", "^"}

Letters == AsciiLetters \cup ExtendedLatinLetters

\* Digits, punctuation other than the apostrophe, whitespace and the emoji.
NonWordChars == CharsOf("0123456789") \cup CharsOf(",.;:!?-()") \cup {" ", "@"}

RECURSIVE AppearInOrder(_, _, _)
\* The strings of seq are found in s one after the other, from index i on.
AppearInOrder(seq, s, i) ==
    \/ seq = <<>>
    \/ \E j \in i..(Len(s) - Len(Head(seq)) + 1) :
           /\ SubSeq(s, j, j + Len(Head(seq)) - 1) = Head(seq)
           /\ AppearInOrder(Tail(seq), s, j + Len(Head(seq)))

\* C11: for every text, tokenize returns the tokens in their order of
\* appearance; each token is non-empty, lower-cased, and made either of
\* ASCII letters and apostrophes only or of extended-Latin letters only;
\* digits, punctuation, whitespace and emoji neither produce a token nor
\* appear inside one; and a text without a letter yields the empty sequence.
C11_TokensAreWords ==
    Tokenized =>
        LET result == tokens.value
        IN  /\ AppearInOrder(result, lower(text), 1)
            /\ \A i \in 1..Len(result) :
                   /\ result[i] # ""
                   /\ lower(result[i]) = result[i]
                   /\ CharsOf(result[i]) \cap (CharsOf(AsciiUpper) \cup {"^"}) = {}
                   /\ \/ CharsOf(result[i]) \subseteq AsciiLetters \cup {"'"}
                      \/ CharsOf(result[i]) \subseteq ExtendedLatinLetters
                   /\ CharsOf(result[i]) \cap NonWordChars = {}
            /\ CharsOf(text) \subseteq NonWordChars => result = <<>>
            /\ CharsOf(text) \cap Letters = {} => result = <<>>


(***************************************************************************)
(* The specification of one _filter_entries call, and the claim on it      *)
(***************************************************************************)
\* No filter, the empty one, "all", and flavors to be trimmed and lower-cased.
FilterFlavors == {None, "", "all", " Islam ", "secular"}

\* No bound, the empty one, a day written with and without padding, a day
\* that does not exist, and the last day a datetime can hold.
DateInputs == {None, "", "2025-09-05", "2025-9-6", "2025-02-30", "9999-12-31"}

\* Timestamps as /journal writes them (to the second), on both sides of
\* midnight, with a space for the T, and to the minute; an empty one and
\* one that is no date.
Timestamps ==
    {"", "soon", "2025-09-04T23:59:59", "2025-09-05T00:00:00", "2025-09-06 23:59:59",
     "2025-09-07T00:00"}

\* Entries as far as _filter_entries reads them, with and without a timestamp.
ListedEntries ==
    {[flavor |-> fl, timestamp |-> ts] : fl \in {"secular", "islam"}, ts \in Timestamps}
    \cup {[flavor |-> fl] : fl \in {"secular", "islam"}}

MaxListed == 2

InitFilter ==
    /\ text = ""
    /\ tokens = Pending
    /\ analysis = NoAnalysis
    /\ outs = <<>>
    /\ call = NoCall
    /\ query \in {[entries |-> es, flavor |-> fl, start |-> st, end |-> en, result |-> Pending] :
                     es \in Lists(ListedEntries, MaxListed), fl \in FilterFlavors,
                     st \in DateInputs, en \in DateInputs}
    /\ StoreIdle

\* One call of _filter_entries.
FilterEntries ==
    /\ query.result = Pending
    /\ \E r \in _filter_entries(query.entries, query.flavor, query.start, query.end) :
           query' = [query EXCEPT !.result = r]
    /\ UNCHANGED <<text, tokens, analysis, outs, call>>
    /\ UNCHANGED storeVars

SpecFilter == InitFilter /\ [][FilterEntries]_vars

\* A date bound that names a day.
ValidBound(s) == _parse_date_yyyy_mm_dd(s) # NoneDatetime

\* The entry's flavor is the trimmed, lower-cased filter, or the filter is
\* empty or "all".
FlavorWanted(e, flavor) ==
    LET f == lower(strip(IF flavor = None THEN "" ELSE flavor))
    IN  f \in {"", "all"} \/ ("flavor" \in DOMAIN e /\ e.flavor = f)

\* The entry's timestamp is on a day from start to end, as far as these
\* are valid bounds; with no valid bound every entry is in range.
InRange(e, start, end) ==
    (ValidBound(start) \/ ValidBound(end)) =>
        LET et == _parse_entry_ts(e)
        IN  /\ et # NoneDatetime
            /\ ValidBound(start) => et.days >= _parse_date_yyyy_mm_dd(start).days
            /\ ValidBound(end) => et.days <= _parse_date_yyyy_mm_dd(end).days

\* C14: _filter_entries returns the subsequence, in the input's order, of
\* exactly the entries whose flavor equals the trimmed, lower-cased filter
\* (every flavor for an empty filter or "all") and whose timestamp lies
\* from 00:00:00 of the start date to 23:59:59 of the end date; an entry
\* without a parseable timestamp is left out only if a valid bound is
\* given, and an invalid or empty bound counts as absent.
C14_FilterContract ==
    "raised" \in DOMAIN query.result =>
        IF query.result.raised THEN FALSE
        ELSE query.result.value =
                 SelectSeq(query.entries,
                           LAMBDA e : /\ FlavorWanted(e, query.flavor)
                                      /\ InRange(e, query.start, query.end))


(***************************************************************************)
(* The specification of /journal requests handled at the same time (the    *)
(* server started by app.run handles each request in a thread of its own), *)
(* and the claim on it                                                     *)
(*                                                                         *)
(* A request goes through the handler in steps: it composes its entry,     *)
(* loads the entries and appends to them in memory, opens the file for     *)
(* writing, which truncates it, and writes the text and closes the file.   *)
(* entries is what load_json(ENTRIES_PATH, []) returns: the list the file  *)
(* holds, and the default [] while the file is empty or holds text that    *)
(* json.load rejects.                                                      *)
(***************************************************************************)
\* data/entries.json was opened for writing and nothing was written since.
EmptyText == "empty"

\* data/entries.json holds a text written over a longer one: the new text
\* followed by the rest of the old one.
MixedText == "mixed"

MaxWorkers == 2

Workers == 1..MaxWorkers

ConcurrentForms == {[entry_text |-> t, mood |-> "7"] : t \in {" ", "sad", "calm"}}

\* The entry an earlier /journal request on the text "tired" has stored.
EarlierEntry ==
    [text        |-> "tired",
     mood_slider |-> 70,
     flavor      |-> "secular",
     analysis    |-> analyze_text("tired"),
     support     |-> _craft_support_messages("tired", analyze_text("tired"), 70),
     quote       |-> DefaultQuote,
     spiritual   |-> None,
     wisdom      |-> NoneWisdom]

InitConcurrent ==
    /\ NoCalls
    /\ entries = <<EarlierEntry>>
    /\ quotes_map = <<>>
    /\ scriptures_map = <<>>
    /\ wisdom_map = <<>>
    /\ entries_text = JsonText
    /\ workers = [w \in Workers |-> [pc |-> "start"]]
    /\ response = Idle

\* The handler from its first line to the entry composed.
Compose(w) ==
    /\ workers[w].pc = "start"
    /\ \E f \in ConcurrentForms : \E o \in compose_entry(f) :
           IF o = Flashed
           THEN /\ workers' = [workers EXCEPT ![w] = [pc |-> "done", stored |-> FALSE]]
                /\ response' = FlashWriteSomething
           ELSE IF o = Raises
           THEN /\ workers' = [workers EXCEPT ![w] = [pc |-> "done", stored |-> FALSE]]
                /\ response' = ServerError
           ELSE /\ workers' = [workers EXCEPT ![w] = [pc |-> "composed", entry |-> o.value]]
                /\ UNCHANGED response
    /\ UNCHANGED <<entries, quotes_map, scriptures_map, wisdom_map, entries_text>>
    /\ UNCHANGED callVars

\* entries = load_json(ENTRIES_PATH, []); entries.append(entry)
LoadAndAppend(w) ==
    /\ workers[w].pc = "composed"
    /\ workers' = [workers EXCEPT ![w] =
                      [pc |-> "loaded", entry |-> workers[w].entry,
                       entries |-> Append(entries, workers[w].entry)]]
    /\ UNCHANGED <<entries, quotes_map, scriptures_map, wisdom_map, entries_text, response>>
    /\ UNCHANGED callVars

\* save_json: open(path, "w") truncates the file.
OpenForWriting(w) ==
    /\ workers[w].pc = "loaded"
    /\ workers' = [workers EXCEPT ![w].pc = "writing"]
    /\ entries' = <<>>
    /\ entries_text' = EmptyText
    /\ UNCHANGED <<quotes_map, scriptures_map, wisdom_map, response>>
    /\ UNCHANGED callVars

\* save_json: json.dump and the close of the file write the text from the
\* file's start.  Over an empty file that leaves the text written; over a
\* text another request wrote in between it leaves the text written if
\* that is at least as long, and a mix of the two otherwise.
WriteAndClose(w) ==
    /\ workers[w].pc = "writing"
    /\ workers' = [workers EXCEPT ![w] =
                      [pc |-> "done", stored |-> TRUE, entry |-> workers[w].entry]]
    /\ \/ /\ entries' = workers[w].entries
          /\ entries_text' = JsonText
       \/ /\ entries_text # EmptyText
          /\ entries' = <<>>
          /\ entries_text' = MixedText
    /\ response' = RedirectEntries
    /\ UNCHANGED <<quotes_map, scriptures_map, wisdom_map>>
    /\ UNCHANGED callVars

SpecConcurrent ==
    /\ InitConcurrent
    /\ [][\E w \in Workers : \/ Compose(w)
                             \/ LoadAndAppend(w)
                             \/ OpenForWriting(w)
                             \/ WriteAndClose(w)]_vars

\* Every request has been answered.
AllCompleted == \A w \in Workers : workers[w].pc = "done"

\* The requests that stored an entry: those on a non-empty text.
Submissions == {w \in Workers : workers[w].pc = "done" /\ workers[w].stored}

\* Once every request has completed, the persisted list holds the entries
\* stored before and one entry for each submission.
NoEntryLost ==
    (workers # <<>> /\ AllCompleted) =>
        /\ entries_text = JsonText
        /\ Len(entries) = 1 + Cardinality(Submissions)
        /\ entries[1] = EarlierEntry
        /\ \A w \in Submissions : workers[w].entry \in Range(entries)

\* A request on an empty text leaves the persisted list as it is.
EmptySubmissionStoresNothing ==
    \A w \in DOMAIN workers :
        (workers[w].pc = "start" /\ workers'[w] = [pc |-> "done", stored |-> FALSE])
            => entries' = entries

\* C16: under every interleaving of two or more /journal submissions on
\* non-empty texts, once all have completed the persisted entries list
\* holds one entry for each submission and every entry stored before; a
\* submission on an empty text leaves the list unchanged.
C16_NoLostEntry == []NoEntryLost /\ [][EmptySubmissionStoresNothing]_vars

=============================================================================
